---- MODULE Spec2Model ----
(***************************************************************************)
(* A model of the two command-line clients of aws_bedrock_playground:      *)
(*   claude3-cli.py         ("cli",    the generic prompt-and-respond one) *)
(*   llm-review-claude3.py  ("review", the code-review one)                *)
(* One behaviour is one run of one script: argument parsing, content       *)
(* resolution, prompt resolution, the streaming call, and the print or the *)
(* client-error handler.                                                   *)
(*                                                                         *)
(* A Python str is the sequence of its characters, each character its      *)
(* Unicode code point, so "+" on str is \o; a comment beside a sequence of *)
(* numbers spells the text.  A Python value of no fixed type is a record   *)
(* with its type's name: PyNone, PyStr(s), PyInt(n), ...  Elsewhere a      *)
(* value that may be missing is NoneV (the empty tuple) or Some(v).        *)
(***************************************************************************)
EXTENDS Integers, Sequences, FiniteSets, TLC

VARIABLES
    script,             \* which of the two scripts runs
    argv,               \* the command line: files and (cli) the optional flags
    stdin,              \* the text waiting on standard input
    service,            \* what the remote side will do: its chunks, then end or a ClientError
    pc,                 \* position of the run in __main__
    args,               \* the argparse namespace
    stdinRead,          \* sys.stdin.read() was called
    additional_prompt,  \* cli: additional_prompt, review: codes
    system_prompt,
    user_prompt,
    status,             \* __main__'s status
    request,            \* the dict generate_message serialises into body
    calls,              \* number of invoke_model_with_response_stream calls issued
    received,           \* the chunks generate_message has taken from the stream
    result,             \* generate_message's local result
    gm_status,          \* generate_message's local status
    response_messages,  \* __main__'s response_messages
    stdout,             \* the lines printed, in order
    raised,             \* the exception raised, if any: its type, message and where
    exitCode            \* the process's exit code once it has ended

vars == << script, argv, stdin, service, pc, args, stdinRead, additional_prompt,
           system_prompt, user_prompt, status, request, calls, received, result,
           gm_status, response_messages, stdout, raised, exitCode >>

----------------------------------------------------------------------------
(* Python values *)

NoneV == << >>
Some(v) == << v >>

PyNone == [ type |-> "NoneType" ]
PyStr(s) == [ type |-> "str", value |-> s ]
PyInt(n) == [ type |-> "int", value |-> n ]
\* a float stands as the text of its literal
PyFloat(literal) == [ type |-> "float", value |-> literal ]
PyBool(b) == [ type |-> "bool", value |-> b ]
PyList(items) == [ type |-> "list", value |-> items ]
\* a dict is its items, << key, value >> pairs in insertion order
PyDict(items) == [ type |-> "dict", value |-> items ]

\* Bounds of the model
MaxArgs == 3
MaxChunks == 3

RECURSIVE SeqsUpTo(_, _)
SeqsUpTo(S, n) ==
    IF n = 0 THEN { << >> }
    ELSE LET shorter == SeqsUpTo(S, n - 1)
         IN  shorter \cup { Append(s, e) : s \in shorter, e \in S }

\* line holds the characters of part, adjacent and in order: "part in line"
Contains(line, part) ==
    \E k \in 0..(Len(line) - Len(part)) : SubSeq(line, k + 1, k + Len(part)) = part

----------------------------------------------------------------------------
(* The file system the run sees *)

Paths == { "a.txt", "b.txt", "user.json", "missing.txt", "srcdir", "locked.txt" }

JsonPaths ==
    { "empty.json", "sys.json", "user.json", "both.json", "typed.json", "list.json",
      "bad.json" }

\* "file": a readable regular file; "unreadable": a regular file open() is
\* denied on; "dir": a directory; "missing": nothing at that path.
PathKind(path) ==
    CASE path = "a.txt"       -> "file"
      [] path = "b.txt"       -> "file"
      [] path = "locked.txt"  -> "unreadable"
      [] path = "srcdir"      -> "dir"
      [] path \in JsonPaths   -> "file"
      [] OTHER                -> "missing"

\* what f.read() gives for a regular file
FileText(path) ==
    \* "A1A2"
    CASE path = "a.txt"       -> << 65, 49, 65, 50 >>
      \* "B1"
      [] path = "b.txt"       -> << 66, 49 >>
      \* "L1"
      [] path = "locked.txt"  -> << 76, 49 >>
      \* {}
      [] path = "empty.json"  -> << 123, 125 >>
      \* {"system_prompt":"FS","n":[1,{"a":null}],"k":-1.5e3}
      [] path = "sys.json"    -> << 123, 34, 115, 121, 115, 116, 101, 109, 95, 112, 114, 111,
          109, 112, 116, 34, 58, 34, 70, 83, 34, 44, 34, 110, 34, 58, 91, 49, 44, 123, 34,
          97, 34, 58, 110, 117, 108, 108, 125, 93, 44, 34, 107, 34, 58, 45, 49, 46, 53, 101,
          51, 125 >>
      \* {"user_prompt": "FU", "note": "N"}
      [] path = "user.json"   -> << 123, 34, 117, 115, 101, 114, 95, 112, 114, 111, 109, 112,
          116, 34, 58, 32, 34, 70, 85, 34, 44, 32, 34, 110, 111, 116, 101, 34, 58, 32, 34,
          78, 34, 125 >>
      \* four lines, indented by two spaces, a key twice, escapes in the values:
      \* {
      \*   "user_prompt": "FU0",
      \*   "system_prompt": "F\"S\n",
      \*   "user_prompt": "F\u00e9U"
      \* }
      [] path = "both.json"   -> << 123, 10, 32, 32, 34, 117, 115, 101, 114, 95, 112, 114,
          111, 109, 112, 116, 34, 58, 32, 34, 70, 85, 48, 34, 44, 10, 32, 32, 34, 115, 121,
          115, 116, 101, 109, 95, 112, 114, 111, 109, 112, 116, 34, 58, 32, 34, 70, 92, 34,
          83, 92, 110, 34, 44, 10, 32, 32, 34, 117, 115, 101, 114, 95, 112, 114, 111, 109,
          112, 116, 34, 58, 32, 34, 70, 92, 117, 48, 48, 101, 57, 85, 34, 10, 125, 10 >>
      \* {"system_prompt": 5, "user_prompt": null}
      [] path = "typed.json"  -> << 123, 34, 115, 121, 115, 116, 101, 109, 95, 112, 114, 111,
          109, 112, 116, 34, 58, 32, 53, 44, 32, 34, 117, 115, 101, 114, 95, 112, 114, 111,
          109, 112, 116, 34, 58, 32, 110, 117, 108, 108, 125 >>
      \* ["user_prompt"]
      [] path = "list.json"   -> << 91, 34, 117, 115, 101, 114, 95, 112, 114, 111, 109, 112,
          116, 34, 93 >>
      \* {"user_prompt": "FU",}
      [] path = "bad.json"    -> << 123, 34, 117, 115, 101, 114, 95, 112, 114, 111, 109, 112,
          116, 34, 58, 32, 34, 70, 85, 34, 44, 125 >>
      [] OTHER                -> << >>

isfile(path) == PathKind(path) \in { "file", "unreadable" }
exists(path) == PathKind(path) # "missing"

\* open(path, 'r') followed by f.read(): the text, or the OSError open raises
open_read(path) ==
    CASE PathKind(path) = "file"       -> [ exc |-> NoneV, text |-> FileText(path) ]
      [] PathKind(path) = "unreadable" -> [ exc |-> Some("PermissionError"), text |-> << >> ]
      [] PathKind(path) = "dir"        -> [ exc |-> Some("IsADirectoryError"), text |-> << >> ]
      [] OTHER                         -> [ exc |-> Some("FileNotFoundError"), text |-> << >> ]

\* The loop of claude3-cli.py's files_reader, from the accumulated text on
RECURSIVE files_reader_cli_from(_, _)
files_reader_cli_from(files, acc) ==
    IF files = << >> THEN [ exc |-> NoneV, result |-> acc ]
    ELSE LET path == Head(files)
         IN  IF isfile(path)
             THEN LET f == open_read(path)
                  IN  IF f.exc # NoneV
                      THEN [ exc |-> f.exc, result |-> acc ]
                      ELSE files_reader_cli_from(Tail(files), acc \o f.text)
             ELSE files_reader_cli_from(Tail(files), acc)

\* a loop that assigns where the code appends: "result = f.read()"
RECURSIVE files_reader_cli_assigning_from(_, _)
files_reader_cli_assigning_from(files, acc) ==
    IF files = << >> THEN [ exc |-> NoneV, result |-> acc ]
    ELSE LET path == Head(files)
         IN  IF isfile(path)
             THEN LET f == open_read(path)
                  IN  IF f.exc # NoneV
                      THEN [ exc |-> f.exc, result |-> acc ]
                      ELSE files_reader_cli_assigning_from(Tail(files), f.text)
             ELSE files_reader_cli_assigning_from(Tail(files), acc)

files_reader_cli_assigning(files) == files_reader_cli_assigning_from(files, << >>)

files_reader_cli(files) == files_reader_cli_from(files, << >>)

\* The loop of llm-review-claude3.py's files_reader: the guard is exists()
RECURSIVE files_reader_review_from(_, _)
files_reader_review_from(files, acc) ==
    IF files = << >> THEN [ exc |-> NoneV, result |-> acc ]
    ELSE LET path == Head(files)
         IN  IF exists(path)
             THEN LET f == open_read(path)
                  IN  IF f.exc # NoneV
                      THEN [ exc |-> f.exc, result |-> acc ]
                      ELSE files_reader_review_from(Tail(files), acc \o f.text)
             ELSE files_reader_review_from(Tail(files), acc)

files_reader_review(files) == files_reader_review_from(files, << >>)

----------------------------------------------------------------------------
(* json.load: the decoder of the json module, on the text of the file *)

JsonFail == [ ok |-> FALSE, end |-> 0, value |-> PyNone ]
JsonDone(value, end) == [ ok |-> TRUE, end |-> end, value |-> value ]

IsDigit(c) == c \in 48..57
IsHexDigit(c) == c \in 48..57 \/ c \in 65..70 \/ c \in 97..102
HexValue(c) == IF c \in 48..57 THEN c - 48 ELSE IF c \in 65..70 THEN c - 55 ELSE c - 87

\* the first position from i on that holds no space, tab, newline or return
RECURSIVE json_skip_whitespace(_, _)
json_skip_whitespace(text, i) ==
    IF i <= Len(text) /\ text[i] \in { 32, 9, 10, 13 }
    THEN json_skip_whitespace(text, i + 1)
    ELSE i

\* the first position from i on that holds no digit
RECURSIVE json_skip_digits(_, _)
json_skip_digits(text, i) ==
    IF i <= Len(text) /\ IsDigit(text[i]) THEN json_skip_digits(text, i + 1) ELSE i

\* the number the digits at i..j-1 write, after acc
RECURSIVE json_digits_value(_, _, _, _)
json_digits_value(text, i, j, acc) ==
    IF i >= j THEN acc
    ELSE json_digits_value(text, i + 1, j, 10 * acc + (text[i] - 48))

\* the four hex digits at i..i+3
json_has_hex4(text, i) ==
    i + 3 <= Len(text) /\ \A k \in i..(i + 3) : IsHexDigit(text[k])
json_hex4(text, i) ==
    4096 * HexValue(text[i]) + 256 * HexValue(text[i + 1])
        + 16 * HexValue(text[i + 2]) + HexValue(text[i + 3])

\* the character a one-letter escape stands for: " \ / b f n r t
json_escape(c) ==
    CASE c = 34  -> Some(34)
      [] c = 92  -> Some(92)
      [] c = 47  -> Some(47)
      [] c = 98  -> Some(8)
      [] c = 102 -> Some(12)
      [] c = 110 -> Some(10)
      [] c = 114 -> Some(13)
      [] c = 116 -> Some(9)
      [] OTHER   -> NoneV

RECURSIVE json_scanstring(_, _, _)

\* a low surrogate u2 after the high surrogate u makes one character of the
\* two escapes; any other u2 leaves u alone and is read again
json_scan_pair(text, i, acc, u, u2) ==
    IF u2 \in 56320..57343
    THEN json_scanstring(text, i + 12,
                         Append(acc, 65536 + (u - 55296) * 1024 + (u2 - 56320)))
    ELSE json_scanstring(text, i + 6, Append(acc, u))

\* the escape \uXXXX at i gave u; a high surrogate with room for a second
\* escape and one more character looks for its low surrogate
json_scan_unicode(text, i, acc, u) ==
    IF /\ u \in 55296..56319
       /\ i + 12 <= Len(text)
       /\ text[i + 6] = 92
       /\ text[i + 7] = 117
    THEN IF ~ json_has_hex4(text, i + 8) THEN JsonFail
         ELSE json_scan_pair(text, i, acc, u, json_hex4(text, i + 8))
    ELSE json_scanstring(text, i + 6, Append(acc, u))

\* the one-letter escape at i stands for e
json_scan_simple(text, i, acc, e) ==
    IF e = NoneV THEN JsonFail
    ELSE json_scanstring(text, i + 2, Append(acc, e[1]))

\* the backslash at i
json_scan_escape(text, i, acc) ==
    IF i + 1 > Len(text) THEN JsonFail
    ELSE IF text[i + 1] = 117
    THEN IF ~ json_has_hex4(text, i + 2) THEN JsonFail
         ELSE json_scan_unicode(text, i, acc, json_hex4(text, i + 2))
    ELSE json_scan_simple(text, i, acc, json_escape(text[i + 1]))

\* scanstring: the string whose next character is at i, after the opening
\* quote; acc is what was read of it.  A control character, an unknown
\* escape and a missing closing quote are errors.
json_scanstring(text, i, acc) ==
    IF i > Len(text) THEN JsonFail
    ELSE IF text[i] = 34 THEN JsonDone(acc, i + 1)
    ELSE IF text[i] = 92 THEN json_scan_escape(text, i, acc)
    ELSE IF text[i] < 32 THEN JsonFail
    ELSE json_scanstring(text, i + 1, Append(acc, text[i]))

\* text holds word from position i on
json_word_at(text, i, word) ==
    i + Len(word) - 1 <= Len(text) /\ SubSeq(text, i, i + Len(word) - 1) = word

\* the end of the integer part at first: a lone 0, or digits after 1..9
json_int_end(text, first) ==
    IF text[first] = 48 THEN first + 1 ELSE json_skip_digits(text, first + 1)

\* the end of a fraction at j, a "." followed by a digit; j without one
json_fraction_end(text, j) ==
    IF j < Len(text) /\ text[j] = 46 /\ IsDigit(text[j + 1])
    THEN json_skip_digits(text, j + 2)
    ELSE j

\* the position after a sign at j, j without one
json_sign_end(text, j) ==
    IF j < Len(text) /\ text[j] \in { 45, 43 } THEN j + 1 ELSE j

\* an exponent counts when a digit follows its e and sign
json_exponent_digits(j, afterSign, afterDigits) ==
    IF afterDigits > afterSign THEN afterDigits ELSE j

\* the end of an exponent at j, an "e" or "E" with digits; j without one
json_exponent_end(text, j) ==
    IF j < Len(text) /\ text[j] \in { 101, 69 }
    THEN json_exponent_digits(j, json_sign_end(text, j + 1),
                              json_skip_digits(text, json_sign_end(text, j + 1)))
    ELSE j

\* the number at i..end-1, whose integer part is at first..afterInt-1: a
\* float with a fraction or an exponent, an int without
json_number_value(text, i, first, afterInt, end) ==
    IF end > afterInt
    THEN JsonDone(PyFloat(SubSeq(text, i, end - 1)), end)
    ELSE JsonDone(PyInt(IF first > i THEN 0 - json_digits_value(text, first, afterInt, 0)
                        ELSE json_digits_value(text, first, afterInt, 0)), end)

json_number_parts(text, i, first, afterInt) ==
    json_number_value(text, i, first, afterInt,
                      json_exponent_end(text, json_fraction_end(text, afterInt)))

json_number_from(text, i, first) ==
    IF first > Len(text) THEN JsonFail
    ELSE IF ~ IsDigit(text[first]) THEN JsonFail
    ELSE json_number_parts(text, i, first, json_int_end(text, first))

\* the number at i: an optional "-", an integer part, then a fraction and
\* an exponent when they are complete
json_number(text, i) == json_number_from(text, i, IF text[i] = 45 THEN i + 1 ELSE i)

\* dict[key] = value on the items of a dict: a key already there keeps its
\* place and takes the new value
dict_set(items, key, value) ==
    IF \E k \in 1..Len(items) : items[k][1] = key
    THEN [ k \in 1..Len(items) |->
             IF items[k][1] = key THEN << key, value >> ELSE items[k] ]
    ELSE Append(items, << key, value >>)

RECURSIVE json_value(_, _)
RECURSIVE json_object_members(_, _, _)
RECURSIVE json_array_items(_, _, _)

\* after a member's value, at next: "}" ends the object, "," goes on
json_member_next(text, items, next) ==
    IF next > Len(text) THEN JsonFail
    ELSE IF text[next] = 125 THEN JsonDone(PyDict(items), next + 1)
    ELSE IF text[next] = 44
    THEN json_object_members(text, json_skip_whitespace(text, next + 1), items)
    ELSE JsonFail

json_member_value(text, items, key, v) ==
    IF ~ v.ok THEN JsonFail
    ELSE json_member_next(text, dict_set(items, key, v.value),
                          json_skip_whitespace(text, v.end))

\* after a member's key, at colon, where ":" must be
json_member_colon(text, items, key, colon) ==
    IF colon > Len(text) THEN JsonFail
    ELSE IF text[colon] # 58 THEN JsonFail
    ELSE json_member_value(text, items, key,
                           json_value(text, json_skip_whitespace(text, colon + 1)))

json_member_key(text, items, key) ==
    IF ~ key.ok THEN JsonFail
    ELSE json_member_colon(text, items, key.value, json_skip_whitespace(text, key.end))

\* the members of an object from i on, where a key's opening quote must be
json_object_members(text, i, items) ==
    IF i > Len(text) THEN JsonFail
    ELSE IF text[i] # 34 THEN JsonFail
    ELSE json_member_key(text, items, json_scanstring(text, i + 1, << >>))

\* after an item, at next: "]" ends the array, "," goes on
json_item_next(text, items, next) ==
    IF next > Len(text) THEN JsonFail
    ELSE IF text[next] = 93 THEN JsonDone(PyList(items), next + 1)
    ELSE IF text[next] = 44
    THEN json_array_items(text, json_skip_whitespace(text, next + 1), items)
    ELSE JsonFail

json_item_value(text, items, v) ==
    IF ~ v.ok THEN JsonFail
    ELSE json_item_next(text, Append(items, v.value), json_skip_whitespace(text, v.end))

\* the items of an array from i on, where a value must be
json_array_items(text, i, items) == json_item_value(text, items, json_value(text, i))

\* a string as a value
json_string_value(s) == IF s.ok THEN JsonDone(PyStr(s.value), s.end) ELSE JsonFail

\* after "{" and whitespace, at j: "}" at once is the empty dict
json_object_from(text, j) ==
    IF j <= Len(text) /\ text[j] = 125 THEN JsonDone(PyDict(<< >>), j + 1)
    ELSE json_object_members(text, j, << >>)

\* after "[" and whitespace, at j: "]" at once is the empty list
json_array_from(text, j) ==
    IF j <= Len(text) /\ text[j] = 93 THEN JsonDone(PyList(<< >>), j + 1)
    ELSE json_array_items(text, j, << >>)

\* word at i is value; anything else that starts with its letter is an error
json_constant(text, i, word, value) ==
    IF json_word_at(text, i, word) THEN JsonDone(value, i + Len(word)) ELSE JsonFail

\* scan_once: the JSON value that starts at i
json_value(text, i) ==
    IF i > Len(text) THEN JsonFail
    ELSE CASE text[i] = 34  -> json_string_value(json_scanstring(text, i + 1, << >>))
           [] text[i] = 123 -> json_object_from(text, json_skip_whitespace(text, i + 1))
           [] text[i] = 91  -> json_array_from(text, json_skip_whitespace(text, i + 1))
           \* "null"
           [] text[i] = 110 -> json_constant(text, i, << 110, 117, 108, 108 >>, PyNone)
           \* "true"
           [] text[i] = 116 -> json_constant(text, i, << 116, 114, 117, 101 >>, PyBool(TRUE))
           \* "false"
           [] text[i] = 102 -> json_constant(text, i, << 102, 97, 108, 115, 101 >>,
               PyBool(FALSE))
           \* "NaN"
           [] text[i] = 78  -> json_constant(text, i, << 78, 97, 78 >>, PyFloat(<< 78, 97,
               78 >>))
           \* "Infinity"
           [] text[i] = 73  -> json_constant(text, i, << 73, 110, 102, 105, 110, 105, 116,
               121 >>, PyFloat(<< 73, 110, 102, 105, 110, 105, 116, 121 >>))
           \* "-Infinity"
           [] text[i] = 45  -> IF json_word_at(text, i, << 45, 73, 110, 102, 105, 110, 105,
               116, 121 >>)
                               \* "-Infinity"
                               THEN JsonDone(PyFloat(<< 45, 73, 110, 102, 105, 110, 105, 116,
                                   121 >>), i + 9)
                               ELSE json_number(text, i)
           [] OTHER         -> json_number(text, i)

\* the value read, v, must be followed by whitespace only
json_load_end(text, v) ==
    IF ~ v.ok THEN [ exc |-> Some("JSONDecodeError"), value |-> PyNone ]
    ELSE IF json_skip_whitespace(text, v.end) # Len(text) + 1
    THEN [ exc |-> Some("JSONDecodeError"), value |-> PyNone ]
    ELSE [ exc |-> NoneV, value |-> v.value ]

\* json.load(f) on the text f.read() gives: one JSON value with whitespace
\* around it; anything else raises JSONDecodeError
json_load(text) == json_load_end(text, json_value(text, json_skip_whitespace(text, 1)))

----------------------------------------------------------------------------
(* The prompts of claude3-cli.py *)

PromptPaths ==
    { "nofile.json", "empty.json", "sys.json", "user.json", "both.json", "typed.json",
      "list.json", "bad.json" }

\* dict.get-free lookup: the value of key in the items of a dict
dict_has(items, key) == \E k \in 1..Len(items) : items[k][1] = key
dict_value(items, key) == items[CHOOSE k \in 1..Len(items) : items[k][1] = key][2]

\* "key in container": a dict is asked for the key, a list for an element
\* equal to it, a str for it as a substring; any other value is not
\* iterable and the test raises TypeError
py_in(key, container) ==
    CASE container.type = "dict" -> [ exc |-> NoneV, holds |-> dict_has(container.value, key) ]
      [] container.type = "list" ->
            [ exc |-> NoneV,
              holds |-> \E k \in 1..Len(container.value) : container.value[k] = PyStr(key) ]
      [] container.type = "str"  -> [ exc |-> NoneV, holds |-> Contains(container.value, key) ]
      [] OTHER                   -> [ exc |-> Some("TypeError"), holds |-> FALSE ]

\* "container[key]" with a str key: the value of a dict; a list and a str
\* take no str index and raise TypeError
py_getitem(container, key) ==
    IF container.type = "dict"
    THEN [ exc |-> NoneV, value |-> dict_value(container.value, key) ]
    ELSE [ exc |-> Some("TypeError"), value |-> PyNone ]

\* if key in _result: prompt = _result[key], where found is the test
prompt_found(_result, key, default, found) ==
    IF found.exc # NoneV THEN [ exc |-> found.exc, value |-> default ]
    ELSE IF ~ found.holds THEN [ exc |-> NoneV, value |-> default ]
    ELSE py_getitem(_result, key)

prompt_member(_result, key, default) ==
    prompt_found(_result, key, default, py_in(key, _result))

\* read_prompt_json ended by the exception e
prompt_failed(e) == [ exc |-> e, system_prompt |-> PyNone, user_prompt |-> PyNone ]

\* return system_prompt, user_prompt; u is the second "if ... in _result"
read_prompt_user(system, u) ==
    IF u.exc # NoneV THEN prompt_failed(u.exc)
    ELSE [ exc |-> NoneV, system_prompt |-> system, user_prompt |-> u.value ]

\* s is the first "if ... in _result"
read_prompt_system(_result, s) ==
    IF s.exc # NoneV THEN prompt_failed(s.exc)
    \* "user_prompt"
    ELSE read_prompt_user(s.value, prompt_member(_result, << 117, 115, 101, 114, 95, 112,
        114, 111, 109, 112, 116 >>, PyNone))

\* _result = json.load(f)
read_prompt_loaded(loaded) ==
    IF loaded.exc # NoneV THEN prompt_failed(loaded.exc)
    ELSE read_prompt_system(loaded.value,
                            \* "system_prompt"
                            prompt_member(loaded.value, << 115, 121, 115, 116, 101, 109, 95,
                                112, 114, 111, 109, 112, 116 >>, PyNone))

\* with open(path, 'r', encoding='UTF-8') as f
read_prompt_opened(f) ==
    IF f.exc # NoneV THEN prompt_failed(f.exc)
    ELSE read_prompt_loaded(json_load(f.text))

\* read_prompt_json(path); path is args.promptfile, None when the flag is
\* not given, and os.path.isfile(None) raises TypeError.
read_prompt_json(path) ==
    IF path = NoneV THEN prompt_failed(Some("TypeError"))
    ELSE IF ~ isfile(path[1]) THEN prompt_failed(NoneV)
    ELSE read_prompt_opened(open_read(path[1]))

\* an override by truth value, "if args.systemprompt:", which an empty flag
\* does not pass
override_if_truthy(flag, fromfile) ==
    IF flag # PyNone /\ flag # PyStr(<< >>) THEN flag ELSE fromfile

\* "if args.systemprompt is not None: system_prompt = args.systemprompt" and
\* the same for args.prompt, a str of which str() is itself: the flag's
\* value replaces the file's
override(flag, fromfile) == IF flag # PyNone THEN flag ELSE fromfile

\* user_prompt + "\n" + additional_prompt; only a str takes "+" with a str,
\* any other value raises TypeError
join_prompt(base, additional) ==
    IF base.type = "str"
    THEN [ exc |-> NoneV, value |-> PyStr(base.value \o << 10 >> \o additional) ]
    ELSE [ exc |-> Some("TypeError"), value |-> base ]

\* max_tokens = 50000; if args.maxTokens: max_tokens = args.maxTokens
max_tokens_of(maxTokens) == IF maxTokens # 0 THEN maxTokens ELSE 50000

\* The fixed prompts of llm-review-claude3.py
review_system_prompt ==
    \* "You're the world class best programmer and you're doing pair programming. You're re
    \* queted to code-review. You need pointed out what's problem, the potential risk and t
    \* he future expansion. And you need to explain how to solve with expected examples. Ex
    \* ample code is expected as diff output manner as -:original code +:modified code"
    PyStr(<< 89, 111, 117, 39, 114, 101, 32, 116, 104, 101, 32, 119, 111, 114, 108, 100, 32,
        99, 108, 97, 115, 115, 32, 98, 101, 115, 116, 32, 112, 114, 111, 103, 114, 97, 109,
        109, 101, 114, 32, 97, 110, 100, 32, 121, 111, 117, 39, 114, 101, 32, 100, 111, 105,
        110, 103, 32, 112, 97, 105, 114, 32, 112, 114, 111, 103, 114, 97, 109, 109, 105, 110,
        103, 46, 32, 89, 111, 117, 39, 114, 101, 32, 114, 101, 113, 117, 101, 116, 101, 100,
        32, 116, 111, 32, 99, 111, 100, 101, 45, 114, 101, 118, 105, 101, 119, 46, 32, 89,
        111, 117, 32, 110, 101, 101, 100, 32, 112, 111, 105, 110, 116, 101, 100, 32, 111,
        117, 116, 32, 119, 104, 97, 116, 39, 115, 32, 112, 114, 111, 98, 108, 101, 109, 44,
        32, 116, 104, 101, 32, 112, 111, 116, 101, 110, 116, 105, 97, 108, 32, 114, 105, 115,
        107, 32, 97, 110, 100, 32, 116, 104, 101, 32, 102, 117, 116, 117, 114, 101, 32, 101,
        120, 112, 97, 110, 115, 105, 111, 110, 46, 32, 65, 110, 100, 32, 121, 111, 117, 32,
        110, 101, 101, 100, 32, 116, 111, 32, 101, 120, 112, 108, 97, 105, 110, 32, 104, 111,
        119, 32, 116, 111, 32, 115, 111, 108, 118, 101, 32, 119, 105, 116, 104, 32, 101, 120,
        112, 101, 99, 116, 101, 100, 32, 101, 120, 97, 109, 112, 108, 101, 115, 46, 32, 69,
        120, 97, 109, 112, 108, 101, 32, 99, 111, 100, 101, 32, 105, 115, 32, 101, 120, 112,
        101, 99, 116, 101, 100, 32, 97, 115, 32, 100, 105, 102, 102, 32, 111, 117, 116, 112,
        117, 116, 32, 109, 97, 110, 110, 101, 114, 32, 97, 115, 32, 45, 58, 111, 114, 105,
        103, 105, 110, 97, 108, 32, 99, 111, 100, 101, 32, 43, 58, 109, 111, 100, 105, 102,
        105, 101, 100, 32, 99, 111, 100, 101 >>)

review_user_prompt(codes) ==
    \* "Please review the following code and please explain the problem and please show the
    \*  better code about the problematic part.\n"
    PyStr(<< 80, 108, 101, 97, 115, 101, 32, 114, 101, 118, 105, 101, 119, 32, 116, 104, 101,
        32, 102, 111, 108, 108, 111, 119, 105, 110, 103, 32, 99, 111, 100, 101, 32, 97, 110,
        100, 32, 112, 108, 101, 97, 115, 101, 32, 101, 120, 112, 108, 97, 105, 110, 32, 116,
        104, 101, 32, 112, 114, 111, 98, 108, 101, 109, 32, 97, 110, 100, 32, 112, 108, 101,
        97, 115, 101, 32, 115, 104, 111, 119, 32, 116, 104, 101, 32, 98, 101, 116, 116, 101,
        114, 32, 99, 111, 100, 101, 32, 97, 98, 111, 117, 116, 32, 116, 104, 101, 32, 112,
        114, 111, 98, 108, 101, 109, 97, 116, 105, 99, 32, 112, 97, 114, 116, 46, 10 >>
          \o codes)

----------------------------------------------------------------------------
(* str() and repr() as print shows a value *)

\* the decimal digits of a natural number, and str(n) of an int
RECURSIVE nat_digits(_)
nat_digits(n) ==
    IF n < 10 THEN << 48 + n >> ELSE Append(nat_digits(n \div 10), 48 + (n % 10))
int_str(n) == IF n < 0 THEN << 45 >> \o nat_digits(0 - n) ELSE nat_digits(n)

\* n in width lowercase hex digits
RECURSIVE hex_digits(_, _)
hex_digits(n, width) ==
    IF width = 0 THEN << >>
    ELSE LET d == n % 16
         IN  Append(hex_digits(n \div 16, width - 1), IF d < 10 THEN 48 + d ELSE 87 + d)

\* the ranges of code points str.isprintable() is false of (Unicode 14.0.0,
\* the database of the interpreter): controls, format characters,
\* surrogates, private use, unassigned, and separators other than the space
NonPrintableRanges ==
    << << 0, 31 >>, << 127, 160 >>, << 173, 173 >>, << 888, 889 >>, << 896, 899 >>,
       << 907, 907 >>, << 909, 909 >>, << 930, 930 >>, << 1328, 1328 >>, << 1367, 1368 >>,
       << 1419, 1420 >>, << 1424, 1424 >>, << 1480, 1487 >>, << 1515, 1518 >>, << 1525, 1541 >>,
       << 1564, 1564 >>, << 1757, 1757 >>, << 1806, 1807 >>, << 1867, 1868 >>, << 1970, 1983 >>,
       << 2043, 2044 >>, << 2094, 2095 >>, << 2111, 2111 >>, << 2140, 2141 >>, << 2143, 2143 >>,
       << 2155, 2159 >>, << 2191, 2199 >>, << 2274, 2274 >>, << 2436, 2436 >>, << 2445, 2446 >>,
       << 2449, 2450 >>, << 2473, 2473 >>, << 2481, 2481 >>, << 2483, 2485 >>, << 2490, 2491 >>,
       << 2501, 2502 >>, << 2505, 2506 >>, << 2511, 2518 >>, << 2520, 2523 >>, << 2526, 2526 >>,
       << 2532, 2533 >>, << 2559, 2560 >>, << 2564, 2564 >>, << 2571, 2574 >>, << 2577, 2578 >>,
       << 2601, 2601 >>, << 2609, 2609 >>, << 2612, 2612 >>, << 2615, 2615 >>, << 2618, 2619 >>,
       << 2621, 2621 >>, << 2627, 2630 >>, << 2633, 2634 >>, << 2638, 2640 >>, << 2642, 2648 >>,
       << 2653, 2653 >>, << 2655, 2661 >>, << 2679, 2688 >>, << 2692, 2692 >>, << 2702, 2702 >>,
       << 2706, 2706 >>, << 2729, 2729 >>, << 2737, 2737 >>, << 2740, 2740 >>, << 2746, 2747 >>,
       << 2758, 2758 >>, << 2762, 2762 >>, << 2766, 2767 >>, << 2769, 2783 >>, << 2788, 2789 >>,
       << 2802, 2808 >>, << 2816, 2816 >>, << 2820, 2820 >>, << 2829, 2830 >>, << 2833, 2834 >>,
       << 2857, 2857 >>, << 2865, 2865 >>, << 2868, 2868 >>, << 2874, 2875 >>, << 2885, 2886 >>,
       << 2889, 2890 >>, << 2894, 2900 >>, << 2904, 2907 >>, << 2910, 2910 >>, << 2916, 2917 >>,
       << 2936, 2945 >>, << 2948, 2948 >>, << 2955, 2957 >>, << 2961, 2961 >>, << 2966, 2968 >>,
       << 2971, 2971 >>, << 2973, 2973 >>, << 2976, 2978 >>, << 2981, 2983 >>, << 2987, 2989 >>,
       << 3002, 3005 >>, << 3011, 3013 >>, << 3017, 3017 >>, << 3022, 3023 >>, << 3025, 3030 >>,
       << 3032, 3045 >>, << 3067, 3071 >>, << 3085, 3085 >>, << 3089, 3089 >>, << 3113, 3113 >>,
       << 3130, 3131 >>, << 3141, 3141 >>, << 3145, 3145 >>, << 3150, 3156 >>, << 3159, 3159 >>,
       << 3163, 3164 >>, << 3166, 3167 >>, << 3172, 3173 >>, << 3184, 3190 >>, << 3213, 3213 >>,
       << 3217, 3217 >>, << 3241, 3241 >>, << 3252, 3252 >>, << 3258, 3259 >>, << 3269, 3269 >>,
       << 3273, 3273 >>, << 3278, 3284 >>, << 3287, 3292 >>, << 3295, 3295 >>, << 3300, 3301 >>,
       << 3312, 3312 >>, << 3315, 3327 >>, << 3341, 3341 >>, << 3345, 3345 >>, << 3397, 3397 >>,
       << 3401, 3401 >>, << 3408, 3411 >>, << 3428, 3429 >>, << 3456, 3456 >>, << 3460, 3460 >>,
       << 3479, 3481 >>, << 3506, 3506 >>, << 3516, 3516 >>, << 3518, 3519 >>, << 3527, 3529 >>,
       << 3531, 3534 >>, << 3541, 3541 >>, << 3543, 3543 >>, << 3552, 3557 >>, << 3568, 3569 >>,
       << 3573, 3584 >>, << 3643, 3646 >>, << 3676, 3712 >>, << 3715, 3715 >>, << 3717, 3717 >>,
       << 3723, 3723 >>, << 3748, 3748 >>, << 3750, 3750 >>, << 3774, 3775 >>, << 3781, 3781 >>,
       << 3783, 3783 >>, << 3790, 3791 >>, << 3802, 3803 >>, << 3808, 3839 >>, << 3912, 3912 >>,
       << 3949, 3952 >>, << 3992, 3992 >>, << 4029, 4029 >>, << 4045, 4045 >>, << 4059, 4095 >>,
       << 4294, 4294 >>, << 4296, 4300 >>, << 4302, 4303 >>, << 4681, 4681 >>, << 4686, 4687 >>,
       << 4695, 4695 >>, << 4697, 4697 >>, << 4702, 4703 >>, << 4745, 4745 >>, << 4750, 4751 >>,
       << 4785, 4785 >>, << 4790, 4791 >>, << 4799, 4799 >>, << 4801, 4801 >>, << 4806, 4807 >>,
       << 4823, 4823 >>, << 4881, 4881 >>, << 4886, 4887 >>, << 4955, 4956 >>, << 4989, 4991 >>,
       << 5018, 5023 >>, << 5110, 5111 >>, << 5118, 5119 >>, << 5760, 5760 >>, << 5789, 5791 >>,
       << 5881, 5887 >>, << 5910, 5918 >>, << 5943, 5951 >>, << 5972, 5983 >>, << 5997, 5997 >>,
       << 6001, 6001 >>, << 6004, 6015 >>, << 6110, 6111 >>, << 6122, 6127 >>, << 6138, 6143 >>,
       << 6158, 6158 >>, << 6170, 6175 >>, << 6265, 6271 >>, << 6315, 6319 >>, << 6390, 6399 >>,
       << 6431, 6431 >>, << 6444, 6447 >>, << 6460, 6463 >>, << 6465, 6467 >>, << 6510, 6511 >>,
       << 6517, 6527 >>, << 6572, 6575 >>, << 6602, 6607 >>, << 6619, 6621 >>, << 6684, 6685 >>,
       << 6751, 6751 >>, << 6781, 6782 >>, << 6794, 6799 >>, << 6810, 6815 >>, << 6830, 6831 >>,
       << 6863, 6911 >>, << 6989, 6991 >>, << 7039, 7039 >>, << 7156, 7163 >>, << 7224, 7226 >>,
       << 7242, 7244 >>, << 7305, 7311 >>, << 7355, 7356 >>, << 7368, 7375 >>, << 7419, 7423 >>,
       << 7958, 7959 >>, << 7966, 7967 >>, << 8006, 8007 >>, << 8014, 8015 >>, << 8024, 8024 >>,
       << 8026, 8026 >>, << 8028, 8028 >>, << 8030, 8030 >>, << 8062, 8063 >>, << 8117, 8117 >>,
       << 8133, 8133 >>, << 8148, 8149 >>, << 8156, 8156 >>, << 8176, 8177 >>, << 8181, 8181 >>,
       << 8191, 8207 >>, << 8232, 8239 >>, << 8287, 8303 >>, << 8306, 8307 >>, << 8335, 8335 >>,
       << 8349, 8351 >>, << 8385, 8399 >>, << 8433, 8447 >>, << 8588, 8591 >>, << 9255, 9279 >>,
       << 9291, 9311 >>, << 11124, 11125 >>, << 11158, 11158 >>, << 11508, 11512 >>,
           << 11558, 11558 >>,
       << 11560, 11564 >>, << 11566, 11567 >>, << 11624, 11630 >>, << 11633, 11646 >>,
           << 11671, 11679 >>,
       << 11687, 11687 >>, << 11695, 11695 >>, << 11703, 11703 >>, << 11711, 11711 >>,
           << 11719, 11719 >>,
       << 11727, 11727 >>, << 11735, 11735 >>, << 11743, 11743 >>, << 11870, 11903 >>,
           << 11930, 11930 >>,
       << 12020, 12031 >>, << 12246, 12271 >>, << 12284, 12288 >>, << 12352, 12352 >>,
           << 12439, 12440 >>,
       << 12544, 12548 >>, << 12592, 12592 >>, << 12687, 12687 >>, << 12772, 12783 >>,
           << 12831, 12831 >>,
       << 42125, 42127 >>, << 42183, 42191 >>, << 42540, 42559 >>, << 42744, 42751 >>,
           << 42955, 42959 >>,
       << 42962, 42962 >>, << 42964, 42964 >>, << 42970, 42993 >>, << 43053, 43055 >>,
           << 43066, 43071 >>,
       << 43128, 43135 >>, << 43206, 43213 >>, << 43226, 43231 >>, << 43348, 43358 >>,
           << 43389, 43391 >>,
       << 43470, 43470 >>, << 43482, 43485 >>, << 43519, 43519 >>, << 43575, 43583 >>,
           << 43598, 43599 >>,
       << 43610, 43611 >>, << 43715, 43738 >>, << 43767, 43776 >>, << 43783, 43784 >>,
           << 43791, 43792 >>,
       << 43799, 43807 >>, << 43815, 43815 >>, << 43823, 43823 >>, << 43884, 43887 >>,
           << 44014, 44015 >>,
       << 44026, 44031 >>, << 55204, 55215 >>, << 55239, 55242 >>, << 55292, 63743 >>,
           << 64110, 64111 >>,
       << 64218, 64255 >>, << 64263, 64274 >>, << 64280, 64284 >>, << 64311, 64311 >>,
           << 64317, 64317 >>,
       << 64319, 64319 >>, << 64322, 64322 >>, << 64325, 64325 >>, << 64451, 64466 >>,
           << 64912, 64913 >>,
       << 64968, 64974 >>, << 64976, 65007 >>, << 65050, 65055 >>, << 65107, 65107 >>,
           << 65127, 65127 >>,
       << 65132, 65135 >>, << 65141, 65141 >>, << 65277, 65280 >>, << 65471, 65473 >>,
           << 65480, 65481 >>,
       << 65488, 65489 >>, << 65496, 65497 >>, << 65501, 65503 >>, << 65511, 65511 >>,
           << 65519, 65531 >>,
       << 65534, 65535 >>, << 65548, 65548 >>, << 65575, 65575 >>, << 65595, 65595 >>,
           << 65598, 65598 >>,
       << 65614, 65615 >>, << 65630, 65663 >>, << 65787, 65791 >>, << 65795, 65798 >>,
           << 65844, 65846 >>,
       << 65935, 65935 >>, << 65949, 65951 >>, << 65953, 65999 >>, << 66046, 66175 >>,
           << 66205, 66207 >>,
       << 66257, 66271 >>, << 66300, 66303 >>, << 66340, 66348 >>, << 66379, 66383 >>,
           << 66427, 66431 >>,
       << 66462, 66462 >>, << 66500, 66503 >>, << 66518, 66559 >>, << 66718, 66719 >>,
           << 66730, 66735 >>,
       << 66772, 66775 >>, << 66812, 66815 >>, << 66856, 66863 >>, << 66916, 66926 >>,
           << 66939, 66939 >>,
       << 66955, 66955 >>, << 66963, 66963 >>, << 66966, 66966 >>, << 66978, 66978 >>,
           << 66994, 66994 >>,
       << 67002, 67002 >>, << 67005, 67071 >>, << 67383, 67391 >>, << 67414, 67423 >>,
           << 67432, 67455 >>,
       << 67462, 67462 >>, << 67505, 67505 >>, << 67515, 67583 >>, << 67590, 67591 >>,
           << 67593, 67593 >>,
       << 67638, 67638 >>, << 67641, 67643 >>, << 67645, 67646 >>, << 67670, 67670 >>,
           << 67743, 67750 >>,
       << 67760, 67807 >>, << 67827, 67827 >>, << 67830, 67834 >>, << 67868, 67870 >>,
           << 67898, 67902 >>,
       << 67904, 67967 >>, << 68024, 68027 >>, << 68048, 68049 >>, << 68100, 68100 >>,
           << 68103, 68107 >>,
       << 68116, 68116 >>, << 68120, 68120 >>, << 68150, 68151 >>, << 68155, 68158 >>,
           << 68169, 68175 >>,
       << 68185, 68191 >>, << 68256, 68287 >>, << 68327, 68330 >>, << 68343, 68351 >>,
           << 68406, 68408 >>,
       << 68438, 68439 >>, << 68467, 68471 >>, << 68498, 68504 >>, << 68509, 68520 >>,
           << 68528, 68607 >>,
       << 68681, 68735 >>, << 68787, 68799 >>, << 68851, 68857 >>, << 68904, 68911 >>,
           << 68922, 69215 >>,
       << 69247, 69247 >>, << 69290, 69290 >>, << 69294, 69295 >>, << 69298, 69375 >>,
           << 69416, 69423 >>,
       << 69466, 69487 >>, << 69514, 69551 >>, << 69580, 69599 >>, << 69623, 69631 >>,
           << 69710, 69713 >>,
       << 69750, 69758 >>, << 69821, 69821 >>, << 69827, 69839 >>, << 69865, 69871 >>,
           << 69882, 69887 >>,
       << 69941, 69941 >>, << 69960, 69967 >>, << 70007, 70015 >>, << 70112, 70112 >>,
           << 70133, 70143 >>,
       << 70162, 70162 >>, << 70207, 70271 >>, << 70279, 70279 >>, << 70281, 70281 >>,
           << 70286, 70286 >>,
       << 70302, 70302 >>, << 70314, 70319 >>, << 70379, 70383 >>, << 70394, 70399 >>,
           << 70404, 70404 >>,
       << 70413, 70414 >>, << 70417, 70418 >>, << 70441, 70441 >>, << 70449, 70449 >>,
           << 70452, 70452 >>,
       << 70458, 70458 >>, << 70469, 70470 >>, << 70473, 70474 >>, << 70478, 70479 >>,
           << 70481, 70486 >>,
       << 70488, 70492 >>, << 70500, 70501 >>, << 70509, 70511 >>, << 70517, 70655 >>,
           << 70748, 70748 >>,
       << 70754, 70783 >>, << 70856, 70863 >>, << 70874, 71039 >>, << 71094, 71095 >>,
           << 71134, 71167 >>,
       << 71237, 71247 >>, << 71258, 71263 >>, << 71277, 71295 >>, << 71354, 71359 >>,
           << 71370, 71423 >>,
       << 71451, 71452 >>, << 71468, 71471 >>, << 71495, 71679 >>, << 71740, 71839 >>,
           << 71923, 71934 >>,
       << 71943, 71944 >>, << 71946, 71947 >>, << 71956, 71956 >>, << 71959, 71959 >>,
           << 71990, 71990 >>,
       << 71993, 71994 >>, << 72007, 72015 >>, << 72026, 72095 >>, << 72104, 72105 >>,
           << 72152, 72153 >>,
       << 72165, 72191 >>, << 72264, 72271 >>, << 72355, 72367 >>, << 72441, 72703 >>,
           << 72713, 72713 >>,
       << 72759, 72759 >>, << 72774, 72783 >>, << 72813, 72815 >>, << 72848, 72849 >>,
           << 72872, 72872 >>,
       << 72887, 72959 >>, << 72967, 72967 >>, << 72970, 72970 >>, << 73015, 73017 >>,
           << 73019, 73019 >>,
       << 73022, 73022 >>, << 73032, 73039 >>, << 73050, 73055 >>, << 73062, 73062 >>,
           << 73065, 73065 >>,
       << 73103, 73103 >>, << 73106, 73106 >>, << 73113, 73119 >>, << 73130, 73439 >>,
           << 73465, 73647 >>,
       << 73649, 73663 >>, << 73714, 73726 >>, << 74650, 74751 >>, << 74863, 74863 >>,
           << 74869, 74879 >>,
       << 75076, 77711 >>, << 77811, 77823 >>, << 78895, 82943 >>, << 83527, 92159 >>,
           << 92729, 92735 >>,
       << 92767, 92767 >>, << 92778, 92781 >>, << 92863, 92863 >>, << 92874, 92879 >>,
           << 92910, 92911 >>,
       << 92918, 92927 >>, << 92998, 93007 >>, << 93018, 93018 >>, << 93026, 93026 >>,
           << 93048, 93052 >>,
       << 93072, 93759 >>, << 93851, 93951 >>, << 94027, 94030 >>, << 94088, 94094 >>,
           << 94112, 94175 >>,
       << 94181, 94191 >>, << 94194, 94207 >>, << 100344, 100351 >>, << 101590, 101631 >>,
           << 101641, 110575 >>,
       << 110580, 110580 >>, << 110588, 110588 >>, << 110591, 110591 >>, << 110883,
           110927 >>, << 110931, 110947 >>,
       << 110952, 110959 >>, << 111356, 113663 >>, << 113771, 113775 >>, << 113789,
           113791 >>, << 113801, 113807 >>,
       << 113818, 113819 >>, << 113824, 118527 >>, << 118574, 118575 >>, << 118599,
           118607 >>, << 118724, 118783 >>,
       << 119030, 119039 >>, << 119079, 119080 >>, << 119155, 119162 >>, << 119275,
           119295 >>, << 119366, 119519 >>,
       << 119540, 119551 >>, << 119639, 119647 >>, << 119673, 119807 >>, << 119893,
           119893 >>, << 119965, 119965 >>,
       << 119968, 119969 >>, << 119971, 119972 >>, << 119975, 119976 >>, << 119981,
           119981 >>, << 119994, 119994 >>,
       << 119996, 119996 >>, << 120004, 120004 >>, << 120070, 120070 >>, << 120075,
           120076 >>, << 120085, 120085 >>,
       << 120093, 120093 >>, << 120122, 120122 >>, << 120127, 120127 >>, << 120133,
           120133 >>, << 120135, 120137 >>,
       << 120145, 120145 >>, << 120486, 120487 >>, << 120780, 120781 >>, << 121484,
           121498 >>, << 121504, 121504 >>,
       << 121520, 122623 >>, << 122655, 122879 >>, << 122887, 122887 >>, << 122905,
           122906 >>, << 122914, 122914 >>,
       << 122917, 122917 >>, << 122923, 123135 >>, << 123181, 123183 >>, << 123198,
           123199 >>, << 123210, 123213 >>,
       << 123216, 123535 >>, << 123567, 123583 >>, << 123642, 123646 >>, << 123648,
           124895 >>, << 124903, 124903 >>,
       << 124908, 124908 >>, << 124911, 124911 >>, << 124927, 124927 >>, << 125125,
           125126 >>, << 125143, 125183 >>,
       << 125260, 125263 >>, << 125274, 125277 >>, << 125280, 126064 >>, << 126133,
           126208 >>, << 126270, 126463 >>,
       << 126468, 126468 >>, << 126496, 126496 >>, << 126499, 126499 >>, << 126501,
           126502 >>, << 126504, 126504 >>,
       << 126515, 126515 >>, << 126520, 126520 >>, << 126522, 126522 >>, << 126524,
           126529 >>, << 126531, 126534 >>,
       << 126536, 126536 >>, << 126538, 126538 >>, << 126540, 126540 >>, << 126544,
           126544 >>, << 126547, 126547 >>,
       << 126549, 126550 >>, << 126552, 126552 >>, << 126554, 126554 >>, << 126556,
           126556 >>, << 126558, 126558 >>,
       << 126560, 126560 >>, << 126563, 126563 >>, << 126565, 126566 >>, << 126571,
           126571 >>, << 126579, 126579 >>,
       << 126584, 126584 >>, << 126589, 126589 >>, << 126591, 126591 >>, << 126602,
           126602 >>, << 126620, 126624 >>,
       << 126628, 126628 >>, << 126634, 126634 >>, << 126652, 126703 >>, << 126706,
           126975 >>, << 127020, 127023 >>,
       << 127124, 127135 >>, << 127151, 127152 >>, << 127168, 127168 >>, << 127184,
           127184 >>, << 127222, 127231 >>,
       << 127406, 127461 >>, << 127491, 127503 >>, << 127548, 127551 >>, << 127561,
           127567 >>, << 127570, 127583 >>,
       << 127590, 127743 >>, << 128728, 128732 >>, << 128749, 128751 >>, << 128765,
           128767 >>, << 128884, 128895 >>,
       << 128985, 128991 >>, << 129004, 129007 >>, << 129009, 129023 >>, << 129036,
           129039 >>, << 129096, 129103 >>,
       << 129114, 129119 >>, << 129160, 129167 >>, << 129198, 129199 >>, << 129202,
           129279 >>, << 129620, 129631 >>,
       << 129646, 129647 >>, << 129653, 129655 >>, << 129661, 129663 >>, << 129671,
           129679 >>, << 129709, 129711 >>,
       << 129723, 129727 >>, << 129734, 129743 >>, << 129754, 129759 >>, << 129768,
           129775 >>, << 129783, 129791 >>,
       << 129939, 129939 >>, << 129995, 130031 >>, << 130042, 131071 >>, << 173792,
           173823 >>, << 177977, 177983 >>,
       << 178206, 178207 >>, << 183970, 183983 >>, << 191457, 194559 >>, << 195102,
           196607 >>, << 201547, 917759 >>,
       << 918000, 1114111 >> >>

IsPrintable(c) ==
    ~ \E k \in 1..Len(NonPrintableRanges) :
          c >= NonPrintableRanges[k][1] /\ c <= NonPrintableRanges[k][2]

\* what repr writes for one character inside the quotes
repr_char(c, quote) ==
    CASE c = quote \/ c = 92      -> << 92, c >>
      [] c = 9                    -> << 92, 116 >>
      [] c = 10                   -> << 92, 110 >>
      [] c = 13                   -> << 92, 114 >>
      [] (c < 32 /\ c \notin { 9, 10, 13 }) \/ c = 127 -> << 92, 120 >> \o hex_digits(c, 2)
      [] c \in 32..126 /\ c # quote /\ c # 92 -> << c >>
      [] OTHER ->
            IF IsPrintable(c) THEN << c >>
            ELSE IF c <= 255 THEN << 92, 120 >> \o hex_digits(c, 2)
            ELSE IF c <= 65535 THEN << 92, 117 >> \o hex_digits(c, 4)
            ELSE << 92, 85 >> \o hex_digits(c, 8)

RECURSIVE repr_chars(_, _)
repr_chars(text, quote) ==
    IF text = << >> THEN << >>
    ELSE repr_char(Head(text), quote) \o repr_chars(Tail(text), quote)

\* repr of a str: in double quotes when it holds ' and no ", in single
\* quotes otherwise, with the quote, the backslash and what is not printable
\* escaped
repr_str(text) ==
    LET quote == IF (\E k \in 1..Len(text) : text[k] = 39)
                    /\ ~ (\E k \in 1..Len(text) : text[k] = 34)
                 THEN 34 ELSE 39
    IN  << quote >> \o repr_chars(text, quote) \o << quote >>

\* repr of a value a field of the stream holds: a JSON null, string, integer
\* or boolean
repr(v) ==
    \* "None"
    CASE v.type = "NoneType" -> << 78, 111, 110, 101 >>
      [] v.type = "str"      -> repr_str(v.value)
      [] v.type = "int"      -> int_str(v.value)
      \* "True", "False"
      [] v.type = "bool"     -> IF v.value THEN << 84, 114, 117, 101 >> ELSE << 70, 97, 108,
          115, 101 >>

----------------------------------------------------------------------------
(* The streamed response *)

TextChunk(t) ==
    [ type |-> "content_block_delta", delta |-> [ type |-> "text_delta", text |-> t ] ]
JsonChunk ==
    [ type |-> "content_block_delta",
      \* "J"
      delta |-> [ type |-> "input_json_delta", text |-> << 74 >> ] ]
StartChunk ==
    \* "S"
    [ type |-> "content_block_start", delta |-> [ type |-> "text_delta", text |-> << 83 >> ] ]
PingChunk == [ type |-> "ping" ]
\* stop_reason and stop_sequence are a JSON null (None) or a string,
\* output_tokens an integer
MsgChunk(reason, sequence, tokens) ==
    [ type |-> "message_delta",
      delta |-> [ stop_reason |-> reason, stop_sequence |-> sequence ],
      usage |-> [ output_tokens |-> tokens ] ]

Chunks ==
    \* "Hello, ", "world!"
    { TextChunk(<< 72, 101, 108, 108, 111, 44, 32 >>), TextChunk(<< 119, 111, 114, 108, 100,
        33 >>),
      JsonChunk, StartChunk, PingChunk,
      \* "end_turn"
      MsgChunk(PyStr(<< 101, 110, 100, 95, 116, 117, 114, 110 >>), PyNone, PyInt(5)),
      \* "stop_sequence", "it's\n\\"
      MsgChunk(PyStr(<< 115, 116, 111, 112, 95, 115, 101, 113, 117, 101, 110, 99, 101 >>),
          PyStr(<< 105, 116, 39, 115, 10, 92 >>), PyInt(7)) }

EmptyDict == [ k \in {} |-> NoneV ]

\* a loop body that takes the text of every content_block_delta chunk,
\* whatever its delta's type
process_chunk_any_delta(acc, chunk) ==
    [ result |-> IF chunk.type = "content_block_delta"
                 THEN acc.result \o chunk.delta.text ELSE acc.result,
      status |-> IF chunk.type = "message_delta"
                 THEN [ stop_reason   |-> chunk.delta.stop_reason,
                        stop_sequence |-> chunk.delta.stop_sequence,
                        output_tokens |-> chunk.usage.output_tokens ]
                 ELSE acc.status ]

\* a loop body that keeps the first status record it built
process_chunk_first_status(acc, chunk) ==
    [ result |-> IF chunk.type = "content_block_delta" /\ chunk.delta.type = "text_delta"
                 THEN acc.result \o chunk.delta.text ELSE acc.result,
      status |-> IF chunk.type = "message_delta" /\ acc.status = EmptyDict
                 THEN [ stop_reason   |-> chunk.delta.stop_reason,
                        stop_sequence |-> chunk.delta.stop_sequence,
                        output_tokens |-> chunk.usage.output_tokens ]
                 ELSE acc.status ]

\* One pass of the body of "for event in response.get('body')"
process_chunk(acc, chunk) ==
    LET afterStatus ==
            IF chunk.type = "message_delta"
            THEN [ stop_reason   |-> chunk.delta.stop_reason,
                   stop_sequence |-> chunk.delta.stop_sequence,
                   output_tokens |-> chunk.usage.output_tokens ]
            ELSE acc.status
        afterResult ==
            IF chunk.type = "content_block_delta"
            THEN IF chunk.delta.type = "text_delta"
                 THEN acc.result \o chunk.delta.text
                 ELSE acc.result
            ELSE acc.result
    IN  [ result |-> afterResult, status |-> afterStatus ]

\* str(status) as print shows it: None, {} or the three items of the dict
str_status(s) ==
    \* "None"
    IF s = NoneV THEN << 78, 111, 110, 101 >>
    \* "{}"
    ELSE IF s[1] = EmptyDict THEN << 123, 125 >>
    \* "{'stop_reason': "
    ELSE << 123, 39, 115, 116, 111, 112, 95, 114, 101, 97, 115, 111, 110, 39, 58,
        32 >> \o repr(s[1].stop_reason)
            \* ", 'stop_sequence': "
            \o << 44, 32, 39, 115, 116, 111, 112, 95, 115, 101, 113, 117, 101, 110, 99, 101,
                39, 58, 32 >> \o repr(s[1].stop_sequence)
            \* ", 'output_tokens': ", "}"
            \o << 44, 32, 39, 111, 117, 116, 112, 117, 116, 95, 116, 111, 107, 101, 110, 115,
                39, 58, 32 >> \o repr(s[1].output_tokens) \o << 125 >>

\* a handler that prints its fixed text without the error's message
handler_lines_without_message(message, s) ==
    \* "A client error occured: "
    << << 65, 32, 99, 108, 105, 101, 110, 116, 32, 101, 114, 114, 111, 114, 32, 111, 99, 99,
        117, 114, 101, 100, 58, 32 >>, str_status(s) >>

\* The two lines the "except ClientError" block prints
handler_lines(message, s) ==
    \* "A client error occured: "
    << << 65, 32, 99, 108, 105, 101, 110, 116, 32, 101, 114, 114, 111, 114, 32, 111, 99, 99,
        117, 114, 101, 100, 58, 32 >> \o message, str_status(s) >>

\* "Access denied", "Too many requests"
ErrorMessages == { << 65, 99, 99, 101, 115, 115, 32, 100, 101, 110, 105, 101, 100 >>, << 84,
    111, 111, 32, 109, 97, 110, 121, 32, 114, 101, 113, 117, 101, 115, 116, 115 >> }

----------------------------------------------------------------------------
(* The runs checked *)

Scripts == { "cli", "review" }

\* "I1I2"
StdinTexts == { << >>, << 73, 49, 73, 50 >> }

\* a flag not given is None, a flag given is the str of its argument
FlagTexts == { PyNone, PyStr(<< >>), PyStr(<< 80 >>) }

PromptFileArgs == { NoneV } \cup { Some(p) : p \in PromptPaths }

MaxTokensArgs == { NoneV, Some(0), Some(-1), Some(7) }

\* what the remote side does: it lets the client be built and the call be
\* made and streams its events to the end, or a ClientError is raised when
\* the client is built ("client"), by the call ("invoke"), or by the
\* stream once its events are taken ("stream")
NoFault == NoneV
Fault(at, message) == Some([ at |-> at, message |-> message ])

Services ==
    { [ events |-> e, fault |-> f ] :
        e \in SeqsUpTo(Chunks, MaxChunks),
        f \in { NoFault } \cup { Fault("stream", m) : m \in ErrorMessages } }
    \cup
    { [ events |-> << >>, fault |-> Fault(at, m) ] :
        at \in { "client", "invoke" }, m \in ErrorMessages }

\* the command line of a run of either script
CliArgv(files, promptfile, prompt, systemprompt, maxTokens) ==
    [ files |-> files, promptfile |-> promptfile, prompt |-> prompt,
      systemprompt |-> systemprompt, maxTokens |-> maxTokens ]
ReviewArgv(files) == [ files |-> files ]

UsualFiles == << "a.txt", "missing.txt", "b.txt" >>
\* "I1I2"
UsualStdin == << 73, 49, 73, 50 >>
UsualService ==
    \* "Hello, ", "world!"
    [ events |-> << TextChunk(<< 72, 101, 108, 108, 111, 44, 32 >>), TextChunk(<< 119, 111,
        114, 108, 100, 33 >>),
                    \* "end_turn"
                    MsgChunk(PyStr(<< 101, 110, 100, 95, 116, 117, 114, 110 >>), PyNone,
                        PyInt(5)) >>,
      fault |-> NoFault ]
UsualArgv(s, files) ==
    IF s = "cli"
    THEN CliArgv(files, Some("both.json"), PyNone, PyNone, NoneV)
    ELSE ReviewArgv(files)

\* one service for each way a run can go on the remote side
SomeServices ==
    { UsualService,
      \* "Hello, ", "stop_sequence", "it's\n\\"
      [ events |-> << TextChunk(<< 72, 101, 108, 108, 111, 44, 32 >>), MsgChunk(PyStr(<< 115,
          116, 111, 112, 95, 115, 101, 113, 117, 101, 110, 99, 101 >>), PyStr(<< 105, 116,
          39, 115, 10, 92 >>), PyInt(7)) >>,
        \* "Access denied"
        fault  |-> Fault("stream", << 65, 99, 99, 101, 115, 115, 32, 100, 101, 110, 105, 101,
            100 >>) ],
      \* "Too many requests"
      [ events |-> << >>, fault |-> Fault("invoke", << 84, 111, 111, 32, 109, 97, 110, 121,
          32, 114, 101, 113, 117, 101, 115, 116, 115 >>) ],
      \* "Access denied"
      [ events |-> << >>, fault |-> Fault("client", << 65, 99, 99, 101, 115, 115, 32, 100,
          101, 110, 105, 101, 100 >>) ] }

SomeFiles == { << >>, UsualFiles, << "b.txt", "srcdir" >> }

\* Runs that vary the positional paths and standard input, runs of the
\* generic script that vary its flags, runs that vary the remote side, and
\* runs that vary the flags together with the content and the remote side.
Runs ==
    { [ script |-> "cli", argv |-> CliArgv(f, pf, u, a, x),
        stdin |-> UsualStdin, service |-> sv ] :
        f \in SomeFiles, pf \in PromptFileArgs, u \in FlagTexts, a \in FlagTexts,
        x \in MaxTokensArgs, sv \in SomeServices }
    \cup
    { [ script |-> s, argv |-> UsualArgv(s, f), stdin |-> i, service |-> UsualService ] :
        s \in Scripts, f \in SeqsUpTo(Paths, MaxArgs), i \in StdinTexts }
    \cup
    { [ script |-> "cli", argv |-> CliArgv(UsualFiles, pf, u, a, x),
        stdin |-> UsualStdin, service |-> UsualService ] :
        pf \in PromptFileArgs, u \in FlagTexts, a \in FlagTexts, x \in MaxTokensArgs }
    \cup
    { [ script |-> s, argv |-> UsualArgv(s, UsualFiles), stdin |-> UsualStdin,
        service |-> sv ] :
        s \in Scripts, sv \in Services }

Init ==
    /\ \E run \in Runs :
          /\ script = run.script
          /\ argv = run.argv
          /\ stdin = run.stdin
          /\ service = run.service
    /\ pc = "start"
    /\ args = NoneV
    /\ stdinRead = FALSE
    /\ additional_prompt = << >>
    /\ system_prompt = PyNone
    /\ user_prompt = PyNone
    /\ status = NoneV
    /\ request = NoneV
    /\ calls = 0
    /\ received = << >>
    /\ result = << >>
    /\ gm_status = EmptyDict
    /\ response_messages = NoneV
    /\ stdout = << >>
    /\ raised = NoneV
    /\ exitCode = NoneV

----------------------------------------------------------------------------
(* __main__ up to the try block *)

Input == << script, argv, stdin, service >>
Call == << request, calls, received, result, gm_status, response_messages >>

\* an exception no handler takes: the traceback goes to stderr, exit code 1
Uncaught(exc) ==
    /\ pc' = "crashed"
    /\ raised' = Some([ type |-> exc, message |-> << >>, at |-> pc ])
    /\ exitCode' = Some(1)

\* claude3-cli.py: parser.parse_args()
ParseArgsCli ==
    /\ pc = "start" /\ script = "cli"
    /\ args' = Some([ args         |-> argv.files,
                      maxTokens    |-> IF argv.maxTokens = NoneV THEN 50000
                                       ELSE argv.maxTokens[1],
                      systemprompt |-> argv.systemprompt,
                      prompt       |-> argv.prompt,
                      promptfile   |-> argv.promptfile ])
    /\ pc' = "content"
    /\ UNCHANGED << Input, Call, stdinRead, additional_prompt, system_prompt,
                    user_prompt, status, stdout, raised, exitCode >>

\* llm-review-claude3.py: parser.parse_args()
ParseArgsReview ==
    /\ pc = "start" /\ script = "review"
    /\ args' = Some([ args |-> argv.files ])
    /\ pc' = "content"
    /\ UNCHANGED << Input, Call, stdinRead, additional_prompt, system_prompt,
                    user_prompt, status, stdout, raised, exitCode >>

\* claude3-cli.py: additional_prompt from the files or from standard input
ContentCli ==
    /\ pc = "content" /\ script = "cli"
    /\ IF Len(args[1].args) > 0
       THEN LET r == files_reader_cli(args[1].args)
            IN  /\ stdinRead' = stdinRead
                /\ IF r.exc # NoneV
                   THEN /\ Uncaught(r.exc[1])
                        /\ UNCHANGED additional_prompt
                   ELSE /\ additional_prompt' = r.result
                        /\ pc' = "promptfile"
                        /\ UNCHANGED << raised, exitCode >>
       ELSE /\ additional_prompt' = stdin
            /\ stdinRead' = TRUE
            /\ pc' = "promptfile"
            /\ UNCHANGED << raised, exitCode >>
    /\ UNCHANGED << Input, Call, args, system_prompt, user_prompt, status, stdout >>

\* llm-review-claude3.py: codes from the files or from standard input
ContentReview ==
    /\ pc = "content" /\ script = "review"
    /\ IF Len(args[1].args) > 0
       THEN LET r == files_reader_review(args[1].args)
            IN  /\ stdinRead' = stdinRead
                /\ IF r.exc # NoneV
                   THEN /\ Uncaught(r.exc[1])
                        /\ UNCHANGED additional_prompt
                   ELSE /\ additional_prompt' = r.result
                        /\ pc' = "fixed"
                        /\ UNCHANGED << raised, exitCode >>
       ELSE /\ additional_prompt' = stdin
            /\ stdinRead' = TRUE
            /\ pc' = "fixed"
            /\ UNCHANGED << raised, exitCode >>
    /\ UNCHANGED << Input, Call, args, system_prompt, user_prompt, status, stdout >>

\* claude3-cli.py: system_prompt, user_prompt = read_prompt_json(args.promptfile)
ReadPromptJson ==
    /\ pc = "promptfile"
    /\ LET r == read_prompt_json(args[1].promptfile)
       IN  IF r.exc # NoneV
           THEN /\ Uncaught(r.exc[1])
                /\ UNCHANGED << system_prompt, user_prompt >>
           ELSE /\ system_prompt' = r.system_prompt
                /\ user_prompt' = r.user_prompt
                /\ pc' = "override"
                /\ UNCHANGED << raised, exitCode >>
    /\ UNCHANGED << Input, Call, args, stdinRead, additional_prompt, status, stdout >>

\* claude3-cli.py: the two "is not None" overrides
OverridePrompts ==
    /\ pc = "override"
    /\ system_prompt' = override(args[1].systemprompt, system_prompt)
    /\ user_prompt' = override(args[1].prompt, user_prompt)
    /\ pc' = "join"
    /\ UNCHANGED << Input, Call, args, stdinRead, additional_prompt, status, stdout,
                    raised, exitCode >>

\* claude3-cli.py: user_prompt = user_prompt + "\n" + additional_prompt,
\* then the logger and status = None
JoinPrompt ==
    /\ pc = "join"
    /\ LET r == join_prompt(user_prompt, additional_prompt)
       IN  IF r.exc # NoneV
           THEN /\ Uncaught(r.exc[1])
                /\ UNCHANGED << user_prompt, status >>
           ELSE /\ user_prompt' = r.value
                /\ status' = NoneV
                /\ pc' = "client"
                /\ UNCHANGED << raised, exitCode >>
    /\ UNCHANGED << Input, Call, args, stdinRead, additional_prompt, system_prompt, stdout >>

\* llm-review-claude3.py: the fixed prompts, then status = None
FixedPrompts ==
    /\ pc = "fixed"
    /\ system_prompt' = review_system_prompt
    /\ user_prompt' = review_user_prompt(additional_prompt)
    /\ status' = NoneV
    /\ pc' = "client"
    /\ UNCHANGED << Input, Call, args, stdinRead, additional_prompt, stdout,
                    raised, exitCode >>

----------------------------------------------------------------------------
(* The try block, generate_message and the ClientError handler *)

Prompts == << args, stdinRead, additional_prompt, system_prompt, user_prompt >>

\* raise ClientError(message) inside the try block: control goes to the
\* "except ClientError" clause
RaiseClientError(message) ==
    /\ raised' = Some([ type |-> "ClientError", message |-> message, at |-> pc ])
    /\ pc' = "except"

FaultAt(at) == service.fault # NoFault /\ service.fault[1].at = at

\* boto3.client(...), with the keys given or with the default credentials
CreateClient ==
    /\ pc = "client"
    /\ IF FaultAt("client")
       THEN RaiseClientError(service.fault[1].message)
       ELSE pc' = "build" /\ UNCHANGED raised
    /\ UNCHANGED << Input, Prompts, Call, status, stdout, exitCode >>

\* the dict generate_message passes to json.dumps
request_body(max_tokens, system, text) ==
    [ anthropic_version |-> "bedrock-2023-05-31",
      max_tokens        |-> max_tokens,
      temperature       |-> 1,
      top_p             |-> "0.999",
      system            |-> system,
      messages          |-> << [ role    |-> "user",
                                 content |-> << [ type |-> "text", text |-> text ] >> ] >> ]

\* claude3-cli.py: max_tokens and messages, then generate_message up to body
EnterGenerateCli ==
    /\ pc = "build" /\ script = "cli"
    /\ request' = Some(request_body(max_tokens_of(args[1].maxTokens),
                                    system_prompt, user_prompt))
    /\ result' = << >>
    /\ gm_status' = EmptyDict
    /\ pc' = "invoke"
    /\ UNCHANGED << Input, Prompts, calls, received, response_messages, status,
                    stdout, raised, exitCode >>

\* llm-review-claude3.py: max_tokens = 50000 and messages, then
\* generate_message up to body
EnterGenerateReview ==
    /\ pc = "build" /\ script = "review"
    /\ request' = Some(request_body(50000, system_prompt, user_prompt))
    /\ result' = << >>
    /\ gm_status' = EmptyDict
    /\ pc' = "invoke"
    /\ UNCHANGED << Input, Prompts, calls, received, response_messages, status,
                    stdout, raised, exitCode >>

\* bedrock_runtime.invoke_model_with_response_stream(body=body, modelId=model_id)
InvokeModel ==
    /\ pc = "invoke"
    /\ calls' = calls + 1
    /\ IF FaultAt("invoke")
       THEN RaiseClientError(service.fault[1].message)
       ELSE pc' = "stream" /\ UNCHANGED raised
    /\ UNCHANGED << Input, Prompts, request, received, result, gm_status,
                    response_messages, status, stdout, exitCode >>

\* an iteration that writes the status it builds to __main__'s status too
StreamChunkSharedStatus ==
    /\ pc = "stream"
    /\ Len(received) < Len(service.events)
    /\ LET chunk == service.events[Len(received) + 1]
           acc == process_chunk([ result |-> result, status |-> gm_status ], chunk)
       IN  /\ received' = Append(received, chunk)
           /\ result' = acc.result
           /\ gm_status' = acc.status
           /\ status' = IF acc.status = EmptyDict THEN status ELSE Some(acc.status)
    /\ UNCHANGED << Input, Prompts, request, calls, response_messages, pc,
                    stdout, raised, exitCode >>

\* one iteration of "for event in response.get('body')"
StreamChunk ==
    /\ pc = "stream"
    /\ Len(received) < Len(service.events)
    /\ LET chunk == service.events[Len(received) + 1]
           acc == process_chunk([ result |-> result, status |-> gm_status ], chunk)
       IN  /\ received' = Append(received, chunk)
           /\ result' = acc.result
           /\ gm_status' = acc.status
    /\ UNCHANGED << Input, Prompts, request, calls, response_messages, status, pc,
                    stdout, raised, exitCode >>

\* the stream ends: "return result, status" and the assignment in __main__
StreamEnd ==
    /\ pc = "stream"
    /\ Len(received) = Len(service.events)
    /\ ~ FaultAt("stream")
    /\ response_messages' = Some(result)
    /\ status' = Some(gm_status)
    /\ pc' = "print"
    /\ UNCHANGED << Input, Prompts, request, calls, received, result, gm_status,
                    stdout, raised, exitCode >>

\* the stream raises ClientError in place of its next event
StreamRaise ==
    /\ pc = "stream"
    /\ Len(received) = Len(service.events)
    /\ FaultAt("stream")
    /\ RaiseClientError(service.fault[1].message)
    /\ UNCHANGED << Input, Prompts, Call, status, stdout, exitCode >>

\* print( response_messages ), and the script ends
PrintResponse ==
    /\ pc = "print"
    /\ stdout' = Append(stdout, response_messages[1])
    /\ pc' = "done"
    /\ exitCode' = Some(0)
    /\ UNCHANGED << Input, Prompts, Call, status, raised >>

\* a handler that also prints the text taken before the error
HandleClientErrorWithPartialText ==
    /\ pc = "except"
    /\ stdout' = stdout \o << result >> \o handler_lines(raised[1].message, status)
    /\ pc' = "done"
    /\ exitCode' = Some(0)
    /\ UNCHANGED << Input, Prompts, Call, status, raised >>

\* except ClientError as err: the two prints, and the script ends
HandleClientError ==
    /\ pc = "except"
    /\ stdout' = stdout \o handler_lines(raised[1].message, status)
    /\ pc' = "done"
    /\ exitCode' = Some(0)
    /\ UNCHANGED << Input, Prompts, Call, status, raised >>

Next ==
    \/ ParseArgsCli
    \/ ParseArgsReview
    \/ ContentCli
    \/ ContentReview
    \/ ReadPromptJson
    \/ OverridePrompts
    \/ JoinPrompt
    \/ FixedPrompts
    \/ CreateClient
    \/ EnterGenerateCli
    \/ EnterGenerateReview
    \/ InvokeModel
    \/ StreamChunk
    \/ StreamEnd
    \/ StreamRaise
    \/ PrintResponse
    \/ HandleClientError

Spec == Init /\ [][Next]_vars

----------------------------------------------------------------------------
(* What the run is expected to compute, stated without the code's loops *)

CrashedAt(where) == pc = "crashed" /\ raised[1].at = where
ClientErrorRaised == raised # NoneV /\ raised[1].type = "ClientError"

\* only readable regular files and paths with nothing behind them
OnlyFilesOrMissing(files) ==
    \A i \in 1..Len(files) : PathKind(files[i]) \in { "file", "missing" }

\* the texts of the existing files among the paths, in the paths' order
RECURSIVE ConcatExisting(_)
ConcatExisting(files) ==
    IF files = << >> THEN << >>
    ELSE LET n == Len(files)
         IN  ConcatExisting(SubSeq(files, 1, n - 1))
                \o (IF PathKind(files[n]) = "file" THEN FileText(files[n]) ELSE << >>)

IsTextDelta(chunk) ==
    chunk.type = "content_block_delta" /\ chunk.delta.type = "text_delta"

\* the text fragments of the text_delta chunks, in stream order
RECURSIVE TextOf(_)
TextOf(chunks) ==
    IF chunks = << >> THEN << >>
    ELSE LET n == Len(chunks)
         IN  TextOf(SubSeq(chunks, 1, n - 1))
                \o (IF IsTextDelta(chunks[n]) THEN chunks[n].delta.text ELSE << >>)

\* the record of the last message_delta chunk, the empty dict without one
LastStatus(chunks) ==
    LET deltas == { i \in 1..Len(chunks) : chunks[i].type = "message_delta" }
    IN  IF deltas = {} THEN EmptyDict
        ELSE LET i == CHOOSE i \in deltas : \A j \in deltas : j <= i
             IN  [ stop_reason   |-> chunks[i].delta.stop_reason,
                   stop_sequence |-> chunks[i].delta.stop_sequence,
                   output_tokens |-> chunks[i].usage.output_tokens ]

\* what the prompt files of the runs hold for the two keys, as their
\* authors wrote them: None where the key is not there and where it is null
FileValue(promptfile, key) ==
    IF promptfile = NoneV THEN PyNone
    ELSE LET path == promptfile[1]
         \* "FS"
         IN  CASE path = "sys.json" /\ key = "system_prompt"   -> PyStr(<< 70, 83 >>)
               \* "FU"
               [] path = "user.json" /\ key = "user_prompt"    -> PyStr(<< 70, 85 >>)
               \* F"S and a newline
               [] path = "both.json" /\ key = "system_prompt"  -> PyStr(<< 70, 34, 83, 10 >>)
               \* F, e with an acute accent, U
               [] path = "both.json" /\ key = "user_prompt"    -> PyStr(<< 70, 233, 85 >>)
               [] path = "typed.json" /\ key = "system_prompt" -> PyInt(5)
               [] OTHER                                        -> PyNone

ExpectedSystem ==
    IF argv.systemprompt # PyNone THEN argv.systemprompt
    ELSE FileValue(argv.promptfile, "system_prompt")

ExpectedUser ==
    IF argv.prompt # PyNone THEN argv.prompt
    ELSE FileValue(argv.promptfile, "user_prompt")

----------------------------------------------------------------------------
(* The claims *)

ContentResolved == pc \notin { "start", "content" } /\ ~ CrashedAt("content")

\* C1: in both scripts, with no positional path the content is the whole of
\* standard input; with paths that are existing files or missing, in any
\* interleaving, content resolution completes, the content is the existing
\* files' texts in argument order, and standard input is not read.
C1_ContentResolution ==
    OnlyFilesOrMissing(argv.files) =>
        /\ ~ CrashedAt("content")
        /\ ContentResolved =>
              IF argv.files = << >>
              THEN stdinRead /\ additional_prompt = stdin
              ELSE ~ stdinRead /\ additional_prompt = ConcatExisting(argv.files)

C1_Witness ==
    /\ script = "review"
    /\ argv.files = << "missing.txt", "b.txt", "a.txt" >>
    /\ stdin # << >>
    /\ pc = "fixed"
    \* "B1A1A2"
    /\ additional_prompt = << 66, 49, 65, 49, 65, 50 >>

\* C2: generate_message's text is, at every point of the stream, the texts
\* of the text_delta chunks of content_block_delta type taken so far, in the
\* order taken; the text it returns is that of the whole stream.
C2_TextInStreamOrder ==
    /\ result = TextOf(received)
    /\ response_messages # NoneV =>
          /\ received = service.events
          /\ response_messages[1] = TextOf(service.events)

C2_Witness ==
    \* "world!", "Hello, "
    /\ service.events = << TextChunk(<< 119, 111, 114, 108, 100, 33 >>), JsonChunk,
        TextChunk(<< 72, 101, 108, 108, 111, 44, 32 >>) >>
    \* "world!Hello, "
    /\ response_messages = Some(<< 119, 111, 114, 108, 100, 33, 72, 101, 108, 108, 111, 44,
        32 >>)

\* C3: generate_message's status is the record of the last message_delta
\* chunk taken, the empty dict before the first; the status it returns is
\* that of the whole stream, and a stream of message_delta chunks only
\* returns empty text and a populated status.
C3_LastStatusWins ==
    /\ gm_status = LastStatus(received)
    /\ response_messages # NoneV =>
          /\ status = Some(LastStatus(service.events))
          /\ ( /\ service.events # << >>
               /\ \A i \in 1..Len(service.events) : service.events[i].type = "message_delta" )
             => response_messages[1] = << >> /\ status[1] # EmptyDict

C3_Witness ==
    \* "stop_sequence", "it's\n\\"
    /\ service.events = << MsgChunk(PyStr(<< 115, 116, 111, 112, 95, 115, 101, 113, 117, 101,
        110, 99, 101 >>), PyStr(<< 105, 116, 39, 115, 10, 92 >>), PyInt(7)),
                           \* "Hello, "
                           TextChunk(<< 72, 101, 108, 108, 111, 44, 32 >>),
                           \* "end_turn"
                           MsgChunk(PyStr(<< 101, 110, 100, 95, 116, 117, 114, 110 >>),
                               PyNone, PyInt(5)) >>
    \* "end_turn"
    /\ status = Some([ stop_reason |-> PyStr(<< 101, 110, 100, 95, 116, 117, 114, 110 >>),
        stop_sequence |-> PyNone,
                       output_tokens |-> PyInt(5) ])

\* C4: a ClientError with message M, raised when the client is built, by the
\* call or by the stream, goes to the handler; once the run has ended a
\* printed line contains M, no exception is left unhandled and the exit
\* code is 0.
C4_ClientErrorReported ==
    /\ ( service.fault # NoFault /\ pc \in { "print", "done" } ) =>
          /\ ClientErrorRaised
          /\ raised[1].message = service.fault[1].message
          /\ raised[1].at = service.fault[1].at
    /\ ClientErrorRaised =>
          /\ pc \in { "except", "done" }
          /\ pc = "done" =>
                /\ \E i \in 1..Len(stdout) : Contains(stdout[i], raised[1].message)
                /\ exitCode = Some(0)

C4_Witness ==
    /\ script = "review"
    /\ pc = "done"
    /\ ClientErrorRaised
    /\ raised[1].at = "stream"
    /\ received # << >>
    \* "A client error occured: Access denied"
    /\ stdout[1] = << 65, 32, 99, 108, 105, 101, 110, 116, 32, 101, 114, 114, 111, 114, 32,
        111, 99, 99, 117, 114, 101, 100, 58, 32, 65, 99, 99, 101, 115, 115, 32, 100, 101,
        110, 105, 101, 100 >>

PromptsResolved ==
    /\ script = "cli"
    /\ \/ pc \in { "join", "client", "build", "invoke", "stream", "print", "except", "done" }
       \/ CrashedAt("join")

\* C5: in the generic script, once the prompts are resolved, the system
\* prompt and the base user prompt are each the flag's value when the flag is
\* given, whatever the prompt file holds, and the file's value for the key
\* otherwise; the flag's value is never joined to the file's.
C5_FlagsOverrideFile ==
    PromptsResolved =>
        /\ system_prompt = ExpectedSystem
        /\ IF pc = "join" \/ CrashedAt("join")
           THEN user_prompt = ExpectedUser
           ELSE user_prompt = PyStr(ExpectedUser.value \o << 10 >> \o additional_prompt)

C5_Witness ==
    /\ pc = "join"
    /\ argv.promptfile = Some("both.json")
    /\ argv.prompt = PyStr(<< >>)
    \* "P"
    /\ argv.systemprompt = PyStr(<< 80 >>)
    /\ user_prompt = PyStr(<< >>)
    \* "P"
    /\ system_prompt = PyStr(<< 80 >>)

\* --promptfile not given, naming a missing file, or naming a file that
\* holds a JSON object with any subset of the two keys, each a string
OptionalPromptFile ==
    \/ argv.promptfile = NoneV
    \/ argv.promptfile[1] \in { "nofile.json", "empty.json", "sys.json", "user.json",
                                "both.json" }

\* C6: in the generic script prompt resolution completes without error for
\* every combination of --promptfile (not given, missing, or a JSON object
\* with any subset of the keys), --prompt and --systemprompt given or not:
\* no such run ends in read_prompt_json or in the joining of the user
\* prompt with the content.
C6_PromptSourcesOptional ==
    ( script = "cli" /\ OptionalPromptFile )
        => ~ ( CrashedAt("promptfile") \/ CrashedAt("join") )

\* C7: files_reader surfaces no error: a path that is missing, a directory
\* or a file that cannot be opened contributes nothing and the run goes on.
C7_FilesReaderNeverRaises ==
    ~ CrashedAt("content")

\* C8: the streaming call is issued at most once; nothing is printed before
\* the run ends; a run without a client error prints the response once,
\* after the whole stream was taken; a run with a client error prints the
\* handler's two lines only, and the accumulated text is in neither.
C8_OneCallOnePrint ==
    /\ calls <= 1
    /\ stdout # << >> => pc = "done"
    /\ ( pc = "done" /\ raised = NoneV ) =>
          /\ calls = 1
          /\ received = service.events
          /\ stdout = << TextOf(service.events) >>
    /\ ( pc = "done" /\ ClientErrorRaised ) =>
          /\ Len(stdout) = 2
          /\ result # << >> => \A i \in 1..Len(stdout) : ~ Contains(stdout[i], result)

C8_Witness ==
    /\ pc = "done"
    /\ ClientErrorRaised
    /\ raised[1].at = "stream"
    /\ calls = 1
    \* "Hello, world!"
    /\ result = << 72, 101, 108, 108, 111, 44, 32, 119, 111, 114, 108, 100, 33 >>

\* C9: max_tokens of the request is the integer given with --maxTokens,
\* whatever it is, and 50000 without the flag; 50000 in the review script.
C9_MaxTokensAsGiven ==
    request # NoneV =>
        request[1].max_tokens =
            IF script = "cli" /\ argv.maxTokens # NoneV THEN argv.maxTokens[1] ELSE 50000

\* C10: when the client-error handler runs, __main__'s status is still None
\* and the status line it prints is "None", also when generate_message had
\* filled its own status from message_delta chunks; status is set only by a
\* normal return, after which no client error is raised.
C10_HandlerStatusIsNone ==
    /\ ClientErrorRaised =>
          /\ status = NoneV
          \* "None"
          /\ pc = "done" => stdout[Len(stdout)] = << 78, 111, 110, 101 >>
    /\ status # NoneV => pc \in { "print", "done" } /\ raised = NoneV

C10_Witness ==
    /\ pc = "done"
    /\ ClientErrorRaised
    \* "stop_sequence"
    /\ gm_status = [ stop_reason |-> PyStr(<< 115, 116, 111, 112, 95, 115, 101, 113, 117,
        101, 110, 99, 101 >>),
                     \* "it's\n\\"
                     stop_sequence |-> PyStr(<< 105, 116, 39, 115, 10, 92 >>),
                     output_tokens |-> PyInt(7) ]
    \* "None"
    /\ stdout[2] = << 78, 111, 110, 101 >>

====
